---- MODULE Spec2Model ----
(***************************************************************************)
(* Model of the funding-rate collector (src/get_funding_rates.py).         *)
(*                                                                         *)
(* A FundingRateCollector owns one client per configured exchange.  A call *)
(* of get_funding_rates_all_exchanges (one symbol) or of                   *)
(* get_multiple_symbols_funding_rates (a list of symbols) launches one     *)
(* coroutine per (symbol, exchange); every coroutine suspends at each      *)
(* network call and the calls complete in any order.                       *)
(*                                                                         *)
(* Python values: a string is a TLA+ string, None is the empty sequence    *)
(* and a present optional value v is <<v>>.  A dict is a function whose    *)
(* domain is the set of keys it has.  A funding rate is an integer number  *)
(* of 1e-4 units (1 is 0.0001).                                            *)
(***************************************************************************)
EXTENDS Integers, Sequences, FiniteSets, TLC

VARIABLES
    exchanges,    \* keys of self.exchanges, in configuration (insertion) order
    markets,      \* exchange name -> whether exchange.markets is loaded
    entry,        \* "none", "all" (one symbol) or "multi" (a list of symbols)
    callPc,       \* "idle", "running" or "returned": the caller's position
    symbols,      \* the symbols requested by the call, in request order
    pc,           \* <<i, j>> -> position of the coroutine of symbol i, exchange j
    calls,        \* <<i, j>> -> funding-rate requests issued to the adapter
    response,     \* <<i, j>> -> what the venue answered (None before it answers)
    taskResult,   \* <<i, j>> -> outcome of the coroutine (None while it runs)
    doneOrder,    \* i -> exchange indices of symbol i in completion order
    symResult,    \* i -> outcome of fetch_symbol / of the one-symbol call
    report,       \* the value returned to the caller
    raised,       \* whether the call raised to its caller
    target,       \* exchange_name of a direct get_funding_rate_single_exchange call
    wrapperPc,    \* position of a synchronous wrapper ("none": no wrapper runs)
    closeCalls,   \* how many times close_connections was called
    closeIdx,     \* index of the client the running close_connections is at
    closed,       \* names of the exchanges whose client is closed
    exchange_tokens,  \* argument of merge_tokens: the items of the dict, in order
    merged_tokens     \* what merge_tokens returned (None before it is called)

\* The state of a synchronous wrapper
wrapperVars == <<wrapperPc, closeCalls, closeIdx, closed>>

vars == <<exchanges, markets, entry, callPc, symbols, pc, calls, response,
          taskResult, doneOrder, symResult, report, raised, target,
          wrapperPc, closeCalls, closeIdx, closed,
          exchange_tokens, merged_tokens>>

\* The state of a TokenCollector (src/get_all_tokens.py)
tokenVars == <<exchange_tokens, merged_tokens>>

----------------------------------------------------------------------------
(* Bounds of the model *)

\* The most coroutines one call launches (symbols times exchanges)
MaxTasks == 3
\* The most symbols one call requests
MaxSymbols == 2
\* The most perpetual markets one exchange lists
MaxTokens == 2

----------------------------------------------------------------------------
(* Python values *)

None == << >>
Some(v) == <<v>>

\* dict.get(key): the value, or None when the key is absent
Get(d, key) == IF key \in DOMAIN d THEN Some(d[key]) ELSE None

\* dict.get(key, default)
GetDefault(d, key, default) == IF key \in DOMAIN d THEN d[key] ELSE default

\* str.replace(old, new): every non-overlapping occurrence, left to right
RECURSIVE Replace(_, _, _)
Replace(s, old, new) ==
    IF Len(s) < Len(old) THEN s
    ELSE IF SubSeq(s, 1, Len(old)) = old
         THEN new \o Replace(SubSeq(s, Len(old) + 1, Len(s)), old, new)
         ELSE SubSeq(s, 1, 1) \o Replace(SubSeq(s, 2, Len(s)), old, new)

----------------------------------------------------------------------------
(* Configuration and the symbol mapping *)

\* FundingRateCollector.__init__: the keys of self.exchanges, in order
ConfiguredExchanges ==
    <<"bitget", "huobi", "kucoin", "bybit", "bingx", "gateio", "okx", "mexc">>

\* The exchanges the model configures: one on the direct-HTTP path and two
\* on the generic-client path (the other five run the same code as these two
\* and differ only in their line of the symbol mapping)
ModelledExchanges == {"bitget", "kucoin", "okx"}

\* The configurations of the model: the configured exchanges restricted to
\* some of the modelled ones, configuration order kept
IncreasingIndices ==
    UNION { { f \in [1..n -> 1..Len(ConfiguredExchanges)] :
                /\ \A a, b \in 1..n : a < b => f[a] < f[b]
                /\ \A a \in 1..n : ConfiguredExchanges[f[a]] \in ModelledExchanges } :
            n \in 1..Cardinality(ModelledExchanges) }

SubConfigurations ==
    { [k \in 1..Len(f) |-> ConfiguredExchanges[f[k]]] : f \in IncreasingIndices }

\* The symbols a caller passes
Symbols == {"BTC/USDT", "ETH/USD"}

\* symbol.replace('/USDT', '').replace('/USD', '')
BaseSymbol(symbol) == Replace(Replace(symbol, "/USDT", ""), "/USD", "")

\* Variant of get_perpetual_symbol: the mapping is looked up with the wrong
\* key, so every exchange gets the default
PerpetualSymbolGenericOnly(exchange_name, base_symbol) == base_symbol \o "/USDT"

\* Variant of get_perpetual_symbol: symbol_mapping.get without a default
PerpetualSymbolNoDefault(exchange_name, base_symbol) ==
    CASE exchange_name = "bitget"  -> base_symbol \o "/USDT:USDT"
      [] exchange_name = "huobi"   -> base_symbol \o "-USDT"
      [] exchange_name = "kucoin"  -> base_symbol \o "USDTM"
      [] exchange_name = "bybit"   -> base_symbol \o "USDT"
      [] exchange_name = "bingx"   -> base_symbol \o "-USDT"
      [] exchange_name = "gateio"  -> base_symbol \o "/USDT:USDT"
      [] exchange_name = "okx"     -> base_symbol \o "-USDT-SWAP"
      [] exchange_name = "mexc"    -> base_symbol \o "_USDT"
      [] exchange_name = "binance" -> base_symbol \o "USDT"
      [] OTHER                     -> ""

\* Variant of get_perpetual_symbol: the OKX line lacks the -SWAP suffix
PerpetualSymbolNoSwap(exchange_name, base_symbol) ==
    CASE exchange_name = "bitget"  -> base_symbol \o "/USDT:USDT"
      [] exchange_name = "kucoin"  -> base_symbol \o "USDTM"
      [] exchange_name = "okx"     -> base_symbol \o "-USDT"
      [] OTHER                     -> base_symbol \o "/USDT"

\* get_perpetual_symbol: symbol_mapping.get(exchange_name, f"{base_symbol}/USDT")
get_perpetual_symbol(exchange_name, base_symbol) ==
    CASE exchange_name = "bitget"  -> base_symbol \o "/USDT:USDT"
      [] exchange_name = "huobi"   -> base_symbol \o "-USDT"
      [] exchange_name = "kucoin"  -> base_symbol \o "USDTM"
      [] exchange_name = "bybit"   -> base_symbol \o "USDT"
      [] exchange_name = "bingx"   -> base_symbol \o "-USDT"
      [] exchange_name = "gateio"  -> base_symbol \o "/USDT:USDT"
      [] exchange_name = "okx"     -> base_symbol \o "-USDT-SWAP"
      [] exchange_name = "mexc"    -> base_symbol \o "_USDT"
      [] exchange_name = "binance" -> base_symbol \o "USDT"
      [] OTHER                     -> base_symbol \o "/USDT"

\* The venue symbols get_funding_rate_single_exchange tries for a symbol, in
\* order: the one symbol of the mapping
Candidates(exchange_name, symbol) ==
    <<get_perpetual_symbol(exchange_name, BaseSymbol(symbol))>>

----------------------------------------------------------------------------
(* What the venues answer *)

\* ccxt fetch_funding_rate: the dict it returns, or the exception it raises.
\* A venue may leave any field out of the dict.
GenericPayloads ==
    { [fundingRate |-> 1, fundingDatetime |-> "2025-07-30T08:00:00Z",
       nextFundingDatetime |-> "2025-07-30T16:00:00Z", timestamp |-> 1700],
      [fundingRate |-> 0, timestamp |-> 1700],
      [fundingDatetime |-> "2025-07-30T08:00:00Z"] }

GenericFaults == {"404 Not Found", "request timed out"}

GenericResponses ==
    { [ok |-> TRUE, info |-> p] : p \in GenericPayloads } \cup
    { [ok |-> FALSE, exc |-> m] : m \in GenericFaults }

\* The KuCoin endpoint: an HTTP status, the body as text, the body as JSON;
\* or an exception raised by the HTTP client or by the JSON decoder.
KucoinResponses ==
    { [kind |-> "http", status |-> 200, text |-> "",
       json |-> [code |-> "200000", data |-> [value |-> "0.0001", timePoint |-> 1700]]],
      [kind |-> "http", status |-> 200, text |-> "",
       json |-> [code |-> "200000", data |-> [timePoint |-> 1700]]],
      [kind |-> "http", status |-> 200, text |-> "",
       json |-> [code |-> "200000", data |-> [value |-> "n/a"]]],
      [kind |-> "http", status |-> 200, text |-> "",
       json |-> [code |-> "200000"]],
      [kind |-> "http", status |-> 200, text |-> "",
       json |-> [code |-> "400100", msg |-> "Symbol not exists"]],
      [kind |-> "http", status |-> 404, text |-> "Not Found",
       json |-> [code |-> "404"]],
      [kind |-> "exception", exc |-> "Cannot connect to host"] }

\* float(str): the strings the model's venues send that Python parses, in 1e-4
FloatTable == [s \in {"0.0001", "0.0", "-0.0002"} |->
                 CASE s = "0.0001" -> 1 [] s = "0.0" -> 0 [] s = "-0.0002" -> -2]

\* bool(data.get('data')): present and not an empty dict
Truthy(opt) == opt # None /\ DOMAIN opt[1] # {}

----------------------------------------------------------------------------
(* The records *)

\* The dict every path returns: the nine fields of a funding-rate record
Record(exchange, symbol, perp, rate, ftime, next_ftime, ts, success, error) ==
    [exchange |-> exchange, symbol |-> symbol, perpetual_symbol |-> perp,
     funding_rate |-> rate, funding_time |-> ftime,
     next_funding_time |-> next_ftime, timestamp |-> ts,
     success |-> success, error |-> error]

\* Variant of FailureRecord: the rate defaults to 0 instead of None
FailureRecordZeroRate(exchange, symbol, perpetual_symbol, error) ==
    Record(exchange, symbol, perpetual_symbol, Some(0), None, None, None,
           FALSE, Some(error))

\* Variant of FailureRecord: the message of the fault is dropped
FailureRecordNoMessage(exchange, symbol, perpetual_symbol, error) ==
    Record(exchange, symbol, perpetual_symbol, None, None, None, None,
           FALSE, Some("Unknown error"))

\* The failure dict: no rate, no times, the error text
FailureRecord(exchange, symbol, perpetual_symbol, error) ==
    Record(exchange, symbol, perpetual_symbol, None, None, None, None,
           FALSE, Some(error))

\* Outcome of a coroutine: still running, the value it returned or the
\* exception it raised
Pending == [kind |-> "pending"]
Returned(v) == [kind |-> "value", value |-> v]
Raised(msg) == [kind |-> "exception", msg |-> msg]

\* float(funding_data.get('value', 0)): float(0) when 'value' is absent
KucoinFundingRate(funding_data) ==
    IF "value" \in DOMAIN funding_data THEN FloatTable[funding_data.value] ELSE 0

\* Variant of get_kucoin_funding_rate: every HTTP 200 is normalized, the
\* envelope's code and the presence of its data object are not looked at
KucoinIgnoresCode(symbol, resp) ==
    LET perp_symbol == BaseSymbol(symbol) \o "USDTM"
    IN  IF resp.kind = "exception"
        THEN FailureRecord("kucoin", symbol, perp_symbol, resp.exc)
        ELSE IF resp.status = 200
        THEN LET funding_data == GetDefault(resp.json, "data", << >>)
             IN  IF /\ "value" \in DOMAIN funding_data
                    /\ funding_data.value \notin DOMAIN FloatTable
                 THEN FailureRecord("kucoin", symbol, perp_symbol,
                          "could not convert string to float: '"
                              \o funding_data.value \o "'")
                 ELSE Record("kucoin", symbol, perp_symbol,
                             Some(KucoinFundingRate(funding_data)),
                             None, None, Get(funding_data, "timePoint"),
                             TRUE, None)
        ELSE FailureRecord("kucoin", symbol, perp_symbol,
                 "HTTP " \o ToString(resp.status) \o ": " \o resp.text)

\* get_kucoin_funding_rate, given what the endpoint answered
get_kucoin_funding_rate(symbol, resp) ==
    LET perp_symbol == BaseSymbol(symbol) \o "USDTM"
    IN  IF resp.kind = "exception"
        THEN FailureRecord("kucoin", symbol, perp_symbol, resp.exc)
        ELSE IF resp.status = 200
        THEN LET data == resp.json
             IN  IF Get(data, "code") = Some("200000") /\ Truthy(Get(data, "data"))
                 THEN LET funding_data == data.data
                      IN  IF /\ "value" \in DOMAIN funding_data
                             /\ funding_data.value \notin DOMAIN FloatTable
                          THEN \* float() raises ValueError: the except branch
                               FailureRecord("kucoin", symbol, perp_symbol,
                                   "could not convert string to float: '"
                                       \o funding_data.value \o "'")
                          ELSE Record("kucoin", symbol, perp_symbol,
                                      Some(KucoinFundingRate(funding_data)),
                                      None, None, Get(funding_data, "timePoint"),
                                      TRUE, None)
                 ELSE FailureRecord("kucoin", symbol, perp_symbol,
                          "KuCoin API error: "
                              \o GetDefault(data, "msg", "Unknown error"))
        ELSE FailureRecord("kucoin", symbol, perp_symbol,
                 "HTTP " \o ToString(resp.status) \o ": " \o resp.text)

\* Variant of SingleExchangeTry: the exception of fetch_funding_rate is
\* swallowed and an empty payload is normalized
SingleExchangeTrySwallow(exchange_name, symbol, resp) ==
    Returned(Record(exchange_name, symbol,
                    get_perpetual_symbol(exchange_name, BaseSymbol(symbol)),
                    IF resp.ok THEN Get(resp.info, "fundingRate") ELSE None,
                    IF resp.ok THEN Get(resp.info, "fundingDatetime") ELSE None,
                    IF resp.ok THEN Get(resp.info, "nextFundingDatetime") ELSE None,
                    IF resp.ok THEN Get(resp.info, "timestamp") ELSE None,
                    TRUE, None))

\* The try block of get_funding_rate_single_exchange on the generic-client
\* path, from the answer of exchange.fetch_funding_rate(perp_symbol) on
SingleExchangeTry(exchange_name, symbol, resp) ==
    LET perp_symbol == get_perpetual_symbol(exchange_name, BaseSymbol(symbol))
    IN  IF resp.ok
        THEN Returned(Record(exchange_name, symbol, perp_symbol,
                             Get(resp.info, "fundingRate"),
                             Get(resp.info, "fundingDatetime"),
                             Get(resp.info, "nextFundingDatetime"),
                             Get(resp.info, "timestamp"),
                             TRUE, None))
        ELSE Raised(resp.exc)

\* Variant of SingleExchangeExcept: the failure record reports the symbol
\* as passed instead of the mapped venue symbol
SingleExchangeExceptRawSymbol(exchange_name, symbol, msg) ==
    FailureRecord(exchange_name, symbol, symbol, msg)

\* Variant of SingleExchangeExcept: the failure record reports the base
\* asset as its symbol
SingleExchangeExceptBaseSymbol(exchange_name, symbol, msg) ==
    FailureRecord(exchange_name, BaseSymbol(symbol),
                  get_perpetual_symbol(exchange_name, BaseSymbol(symbol)), msg)

\* The except branch of get_funding_rate_single_exchange
SingleExchangeExcept(exchange_name, symbol, msg) ==
    FailureRecord(exchange_name, symbol,
                  get_perpetual_symbol(exchange_name, BaseSymbol(symbol)), msg)

\* Variant of get_funding_rate_single_exchange: no except branch, the
\* exception leaves the coroutine
SingleExchangeNoExcept(exchange_name, symbol, resp) ==
    SingleExchangeTry(exchange_name, symbol, resp)

\* get_funding_rate_single_exchange on the generic-client path: what the
\* coroutine returns once fetch_funding_rate has answered
get_funding_rate_single_exchange(exchange_name, symbol, resp) ==
    LET r == SingleExchangeTry(exchange_name, symbol, resp)
    IN  IF r.kind = "exception"
        THEN Returned(SingleExchangeExcept(exchange_name, symbol, r.msg))
        ELSE r

\* Variant of GatherExchanges: the outcomes in the order the tasks completed
GatherByCompletion(i) ==
    [k \in 1..Len(exchanges) |-> taskResult[<<i, doneOrder[i][k]>>]]

\* asyncio.gather(*tasks, return_exceptions=True) of the exchange tasks of
\* symbol i: the outcomes in the order the tasks were passed
GatherExchanges(i) == [j \in 1..Len(exchanges) |-> taskResult[<<i, j>>]]

\* Variant of ProcessedResults: the loop ends at the first failed outcome
RECURSIVE ProcessedUntilFailure(_, _)
ProcessedUntilFailure(results, symbol) ==
    IF results = << >> THEN << >>
    ELSE IF Head(results).kind = "exception" \/ ~Head(results).value.success
         THEN << >>
         ELSE <<Head(results).value>> \o ProcessedUntilFailure(Tail(results), symbol)

\* The loop of get_funding_rates_all_exchanges over the gathered outcomes
ProcessedResults(results, symbol) ==
    [k \in 1..Len(results) |->
        IF results[k].kind = "exception"
        THEN FailureRecord(exchanges[k], symbol,
                 get_perpetual_symbol(exchanges[k], BaseSymbol(symbol)),
                 results[k].msg)
        ELSE results[k].value]

\* results[symbol] = data
DictSet(d, key, value) ==
    [x \in (DOMAIN d) \cup {key} |-> IF x = key THEN value ELSE d[x]]

\* Variant of CollectResults: the return sits inside the loop, so only the
\* first outcome is collected
CollectFirstOnly(task_results, results) ==
    IF task_results = << >> THEN results
    ELSE LET result == Head(task_results)
         IN  IF result.kind = "exception" THEN results
             ELSE DictSet(results, result.value[1], result.value[2])

\* The loop of get_multiple_symbols_funding_rates over the gathered outcomes
\* of fetch_symbol: an exception is logged and skipped, a (symbol, data) pair
\* is stored under its symbol
RECURSIVE CollectResults(_, _)
CollectResults(task_results, results) ==
    IF task_results = << >> THEN results
    ELSE LET result == Head(task_results)
         IN  CollectResults(Tail(task_results),
                 IF result.kind = "exception" THEN results
                 ELSE DictSet(results, result.value[1], result.value[2]))

\* Variant of get_successful_rates: the results are returned unfiltered
SuccessfulRatesUnfiltered(results) == results

\* get_successful_rates: [result for result in results if result['success']]
get_successful_rates(results) ==
    SelectSeq(results, LAMBDA result : result.success)

\* get_failed_exchanges:
\* [result['exchange'] for result in results if not result['success']]
get_failed_exchanges(results) ==
    LET failed == SelectSeq(results, LAMBDA result : ~result.success)
    IN  [k \in 1..Len(failed) |-> failed[k].exchange]

----------------------------------------------------------------------------
(* merge_tokens of TokenCollector (src/get_all_tokens.py) *)

\* The exchanges whose listings the model merges, in the order of the dict
TokenExchanges == <<"bitget", "okx">>

\* The entries get_perpetual_symbols_from_exchange builds from the markets
\* of an exchange (the fields merge_tokens reads)
Tokens ==
    { [symbol |-> "BTC/USDT:USDT", base |-> "BTC", active |-> TRUE],
      [symbol |-> "BTC/USD:BTC", base |-> "BTC", active |-> FALSE],
      [symbol |-> "ETH/USDT:USDT", base |-> "ETH", active |-> TRUE],
      [symbol |-> "SOL/USDT:USDT", base |-> "SOL", active |-> TRUE] }

\* The listings of one exchange: its markets dict has one entry per symbol
TokenLists ==
    { tokens \in UNION { [1..n -> Tokens] : n \in 0..MaxTokens } :
        \A a, b \in 1..Len(tokens) : a # b => tokens[a] # tokens[b] }

\* The arguments of merge_tokens: exchange_tokens.items(), in dict order
ExchangeTokens ==
    { [k \in 1..Len(TokenExchanges) |-> <<TokenExchanges[k], lists[k]>>] :
        lists \in [1..Len(TokenExchanges) -> TokenLists] }

\* The pairs (exchange name, token) the two nested loops of merge_tokens
\* visit, in the order they visit them
RECURSIVE Listings(_)
Listings(items) ==
    IF items = << >> THEN << >>
    ELSE LET ex_name == Head(items)[1]
             ex_tokens == Head(items)[2]
         IN  [k \in 1..Len(ex_tokens) |-> <<ex_name, ex_tokens[k]>>]
                 \o Listings(Tail(items))

\* The inner loops of merge_tokens: exchanges_with_token for a base
ExchangesWithToken(items, base) ==
    LET found == SelectSeq(Listings(items), LAMBDA l : l[2].base = base)
    IN  [k \in 1..Len(found) |->
            [exchange |-> found[k][1],
             symbol |-> found[k][2].symbol,
             active |-> found[k][2].active]]

\* The outer loops of merge_tokens over the listings still to visit: a base
\* not in seen_bases gets an entry appended to merged_tokens
RECURSIVE CollectBases(_, _, _, _)
CollectBases(items, listings, seen_bases, merged) ==
    IF listings = << >> THEN merged
    ELSE LET base == Head(listings)[2].base
         IN  IF base \in seen_bases
             THEN CollectBases(items, Tail(listings), seen_bases, merged)
             ELSE LET exchanges_with_token == ExchangesWithToken(items, base)
                  IN  CollectBases(items, Tail(listings), seen_bases \cup {base},
                          Append(merged,
                              [base_symbol |-> base,
                               exchanges |-> exchanges_with_token,
                               exchange_count |-> Len(exchanges_with_token)]))

\* list.sort(key=lambda x: x['exchange_count'], reverse=True): a stable sort,
\* entries of equal count keep their order
RECURSIVE SortByCount(_)
SortByCount(merged) ==
    IF merged = << >> THEN << >>
    ELSE LET x == Head(merged)
             rest == SortByCount(Tail(merged))
             before == SelectSeq(rest, LAMBDA y : y.exchange_count > x.exchange_count)
             after == SelectSeq(rest, LAMBDA y : y.exchange_count <= x.exchange_count)
         IN  before \o <<x>> \o after

\* Variant of merge_tokens: the entries stay in the order the bases were
\* first seen
MergeTokensUnsorted(items) ==
    CollectBases(items, Listings(items), {}, << >>)

merge_tokens(items) ==
    SortByCount(CollectBases(items, Listings(items), {}, << >>))

----------------------------------------------------------------------------
(* The state machine *)

Range(f) == { f[x] : x \in DOMAIN f }

TasksOf(syms) == (1..Len(syms)) \X (1..Len(exchanges))
Tasks == TasksOf(symbols)

\* The symbol lists a call of the model may pass
SymbolLists ==
    { syms \in UNION { [1..n -> Symbols] : n \in 0..MaxSymbols } :
        Len(syms) * Len(exchanges) <= MaxTasks }

\* A collector fresh from __init__: no market loaded, no call made
Init ==
    /\ exchanges \in SubConfigurations
    /\ markets = [e \in Range(exchanges) |-> FALSE]
    /\ entry = "none"
    /\ callPc = "idle"
    /\ symbols = << >>
    /\ pc = << >>
    /\ calls = << >>
    /\ response = << >>
    /\ taskResult = << >>
    /\ doneOrder = << >>
    /\ symResult = << >>
    /\ report = << >>
    /\ raised = FALSE
    /\ target = ""
    /\ wrapperPc = "none"
    /\ closeCalls = 0
    /\ closeIdx = 0
    /\ closed = {}
    /\ exchange_tokens = << >>
    /\ merged_tokens = << >>

\* A call creates one coroutine per (symbol, exchange) and awaits the gather
Launch(kind, syms) ==
    /\ callPc = "idle"
    /\ callPc' = "running"
    /\ entry' = kind
    /\ symbols' = syms
    /\ pc' = [t \in TasksOf(syms) |-> "ready"]
    /\ calls' = [t \in TasksOf(syms) |-> 0]
    /\ response' = [t \in TasksOf(syms) |-> None]
    /\ taskResult' = [t \in TasksOf(syms) |-> Pending]
    /\ doneOrder' = [i \in 1..Len(syms) |-> << >>]
    /\ symResult' = [i \in 1..Len(syms) |-> Pending]
    /\ UNCHANGED tokenVars /\ UNCHANGED <<exchanges, markets, report, raised, target>>

\* get_funding_rates_all_exchanges(symbol), up to its await of the gather
CallAllExchanges ==
    \E symbol \in Symbols :
        /\ Len(exchanges) <= MaxTasks
        /\ Launch("all", <<symbol>>)
        /\ UNCHANGED wrapperVars

\* get_multiple_symbols_funding_rates(symbols), up to its await of the gather
CallMultipleSymbols ==
    /\ \E syms \in SymbolLists : Launch("multi", syms)
    /\ UNCHANGED wrapperVars

\* Exchange names a caller may pass that are no key of self.exchanges:
\* one that has a line in the symbol mapping and one that has none
UnknownExchanges == {"binance", "ftx"}

\* str(KeyError(name)): the message of the failed lookup self.exchanges[name]
KeyErrorMessage(name) == "'" \o name \o "'"

\* A direct call get_funding_rate_single_exchange(exchange_name, symbol).
\* A name that is no key of self.exchanges raises KeyError at the lookup;
\* the except branch returns its record at once.  Else the coroutine of
\* that exchange is created.
CallSingleExchange ==
    \E exchange_name \in Range(exchanges) \cup UnknownExchanges, symbol \in Symbols :
        /\ callPc = "idle"
        /\ entry' = "single"
        /\ target' = exchange_name
        /\ symbols' = <<symbol>>
        /\ calls' = [t \in TasksOf(<<symbol>>) |-> 0]
        /\ response' = [t \in TasksOf(<<symbol>>) |-> None]
        /\ taskResult' = [t \in TasksOf(<<symbol>>) |-> Pending]
        /\ doneOrder' = <<(<< >>)>>
        /\ symResult' = <<Pending>>
        /\ IF exchange_name \in Range(exchanges)
           THEN /\ callPc' = "running"
                /\ pc' = [t \in TasksOf(<<symbol>>) |->
                            IF exchanges[t[2]] = exchange_name
                            THEN "ready" ELSE "absent"]
                /\ UNCHANGED report
           ELSE /\ callPc' = "returned"
                /\ pc' = [t \in TasksOf(<<symbol>>) |-> "absent"]
                /\ report' = SingleExchangeExcept(exchange_name, symbol,
                                  KeyErrorMessage(exchange_name))
        /\ UNCHANGED wrapperVars /\ UNCHANGED tokenVars /\ UNCHANGED <<exchanges, markets, raised>>

\* The direct call returns what its coroutine returned, or raises what it
\* raised
SingleExchangeReturn ==
    /\ callPc = "running"
    /\ entry = "single"
    /\ \E t \in Tasks :
          /\ pc[t] = "done"
          /\ IF taskResult[t].kind = "exception"
             THEN raised' = TRUE /\ UNCHANGED report
             ELSE report' = taskResult[t].value /\ UNCHANGED raised
    /\ callPc' = "returned"
    /\ UNCHANGED wrapperVars /\ UNCHANGED tokenVars /\ UNCHANGED <<exchanges, markets, entry, symbols, pc, calls, response,
                   taskResult, doneOrder, symResult, target>>

\* Variant of StartTask: the coroutines are awaited one after the other, a
\* coroutine starts once those created before it have ended
StartTaskSequential(t) ==
    /\ callPc = "running"
    /\ pc[t] = "ready"
    /\ \A u \in Tasks :
          (u[1] < t[1] \/ (u[1] = t[1] /\ u[2] < t[2])) =>
              pc[u] \in {"done", "absent"}
    /\ LET exchange_name == exchanges[t[2]]
       IN  IF exchange_name = "kucoin"
           THEN /\ pc' = [pc EXCEPT ![t] = "http"]
                /\ calls' = [calls EXCEPT ![t] = @ + 1]
           ELSE IF ~markets[exchange_name]
           THEN /\ pc' = [pc EXCEPT ![t] = "loading"]
                /\ UNCHANGED calls
           ELSE /\ pc' = [pc EXCEPT ![t] = "fetching"]
                /\ calls' = [calls EXCEPT ![t] = @ + 1]
    /\ UNCHANGED wrapperVars /\ UNCHANGED tokenVars /\ UNCHANGED <<exchanges, markets, entry, callPc, symbols, response,
                   taskResult, doneOrder, symResult, report, raised, target>>

\* get_funding_rate_single_exchange, from its start to its first await:
\* the KuCoin request, load_markets when the client has no markets, else the
\* funding-rate request
StartTask(t) ==
    /\ callPc = "running"
    /\ pc[t] = "ready"
    /\ LET exchange_name == exchanges[t[2]]
       IN  IF exchange_name = "kucoin"
           THEN /\ pc' = [pc EXCEPT ![t] = "http"]
                /\ calls' = [calls EXCEPT ![t] = @ + 1]
           ELSE IF ~markets[exchange_name]
           THEN /\ pc' = [pc EXCEPT ![t] = "loading"]
                /\ UNCHANGED calls
           ELSE /\ pc' = [pc EXCEPT ![t] = "fetching"]
                /\ calls' = [calls EXCEPT ![t] = @ + 1]
    /\ UNCHANGED wrapperVars /\ UNCHANGED tokenVars /\ UNCHANGED <<exchanges, markets, entry, callPc, symbols, response,
                   taskResult, doneOrder, symResult, report, raised, target>>

\* The coroutine of task t ends with outcome r after the venue answered resp
Complete(t, resp, r) ==
    /\ response' = [response EXCEPT ![t] = Some(resp)]
    /\ taskResult' = [taskResult EXCEPT ![t] = r]
    /\ pc' = [pc EXCEPT ![t] = "done"]
    /\ doneOrder' = [doneOrder EXCEPT ![t[1]] = Append(@, t[2])]
    /\ UNCHANGED wrapperVars /\ UNCHANGED tokenVars /\ UNCHANGED <<exchanges, markets, entry, callPc, symbols, calls,
                   symResult, report, raised, target>>

\* Variant of LoadMarketsReturn: the exception of load_markets is not
\* swallowed, it ends the coroutine in the except branch
LoadMarketsFatal(t) ==
    /\ callPc = "running"
    /\ pc[t] = "loading"
    /\ \E ok \in BOOLEAN :
          IF ok
          THEN /\ markets' = [markets EXCEPT ![exchanges[t[2]]] = TRUE]
               /\ pc' = [pc EXCEPT ![t] = "fetching"]
               /\ calls' = [calls EXCEPT ![t] = @ + 1]
               /\ UNCHANGED wrapperVars /\ UNCHANGED tokenVars /\ UNCHANGED <<exchanges, entry, callPc, symbols, response,
                              taskResult, doneOrder, symResult, report,
                              raised, target>>
          ELSE Complete(t, [ok |-> FALSE, exc |-> "load_markets failed"],
                   Returned(SingleExchangeExcept(exchanges[t[2]], symbols[t[1]],
                                                 "load_markets failed")))

\* load_markets answers: the markets are set when it succeeds, its exception
\* is swallowed when it fails; then the funding-rate request is issued
LoadMarketsReturn(t) ==
    /\ callPc = "running"
    /\ pc[t] = "loading"
    /\ \E ok \in BOOLEAN :
          markets' = IF ok THEN [markets EXCEPT ![exchanges[t[2]]] = TRUE]
                     ELSE markets
    /\ pc' = [pc EXCEPT ![t] = "fetching"]
    /\ calls' = [calls EXCEPT ![t] = @ + 1]
    /\ UNCHANGED wrapperVars /\ UNCHANGED tokenVars /\ UNCHANGED <<exchanges, entry, callPc, symbols, response, taskResult,
                   doneOrder, symResult, report, raised, target>>

\* Variant of FetchFundingRateReturn: after a successful answer the request
\* is issued once more before the record is built
FetchFundingRateRetry(t) ==
    /\ callPc = "running"
    /\ pc[t] = "fetching"
    /\ \E resp \in GenericResponses :
          IF resp.ok /\ calls[t] < 2
          THEN /\ calls' = [calls EXCEPT ![t] = @ + 1]
               /\ UNCHANGED wrapperVars /\ UNCHANGED tokenVars /\ UNCHANGED <<exchanges, markets, entry, callPc, symbols, pc,
                              response, taskResult, doneOrder, symResult,
                              report, raised, target>>
          ELSE Complete(t, resp,
                   get_funding_rate_single_exchange(exchanges[t[2]],
                                                    symbols[t[1]], resp))

\* Variant of FetchFundingRateReturn: after a failed answer the request is
\* issued once more, as for a second candidate
FetchFundingRateFallback(t) ==
    /\ callPc = "running"
    /\ pc[t] = "fetching"
    /\ \E resp \in GenericResponses :
          IF ~resp.ok /\ calls[t] < 2
          THEN /\ calls' = [calls EXCEPT ![t] = @ + 1]
               /\ UNCHANGED wrapperVars /\ UNCHANGED tokenVars /\ UNCHANGED <<exchanges, markets, entry, callPc, symbols, pc,
                              response, taskResult, doneOrder, symResult,
                              report, raised, target>>
          ELSE Complete(t, resp,
                   get_funding_rate_single_exchange(exchanges[t[2]],
                                                    symbols[t[1]], resp))

\* Variant of FetchFundingRateReturn: a failed request is issued again
\* until it succeeds
FetchFundingRateUntilSuccess(t) ==
    /\ callPc = "running"
    /\ pc[t] = "fetching"
    /\ \E resp \in GenericResponses :
          IF ~resp.ok
          THEN /\ calls' = [calls EXCEPT ![t] = IF @ < 3 THEN @ + 1 ELSE @]
               /\ UNCHANGED wrapperVars /\ UNCHANGED tokenVars /\ UNCHANGED <<exchanges, markets, entry, callPc, symbols, pc,
                              response, taskResult, doneOrder, symResult,
                              report, raised, target>>
          ELSE Complete(t, resp,
                   get_funding_rate_single_exchange(exchanges[t[2]],
                                                    symbols[t[1]], resp))

\* exchange.fetch_funding_rate answers; the coroutine builds its record
FetchFundingRateReturn(t) ==
    /\ callPc = "running"
    /\ pc[t] = "fetching"
    /\ \E resp \in GenericResponses :
          Complete(t, resp,
              get_funding_rate_single_exchange(exchanges[t[2]],
                                               symbols[t[1]], resp))

\* The KuCoin endpoint answers; the coroutine returns the record of
\* get_kucoin_funding_rate
KucoinReturn(t) ==
    /\ callPc = "running"
    /\ pc[t] = "http"
    /\ \E resp \in KucoinResponses :
          Complete(t, resp,
              Returned(get_kucoin_funding_rate(symbols[t[1]], resp)))

AllDone(i) == \A j \in 1..Len(exchanges) : pc[<<i, j>>] = "done"

\* get_funding_rates_all_exchanges after the gather: the processed results
AllExchangesResult(i) == ProcessedResults(GatherExchanges(i), symbols[i])

\* Variant of AllExchangesReturn: the call returns as soon as one task has
\* ended, with the records of the tasks that have ended so far
AllExchangesReturnEarly ==
    /\ callPc = "running"
    /\ entry = "all"
    /\ doneOrder[1] # << >>
    /\ report' = [k \in 1..Len(doneOrder[1]) |->
                     taskResult[<<1, doneOrder[1][k]>>].value]
    /\ callPc' = "returned"
    /\ UNCHANGED wrapperVars /\ UNCHANGED tokenVars /\ UNCHANGED <<exchanges, markets, entry, symbols, pc, calls, response,
                   taskResult, doneOrder, symResult, raised, target>>

\* The one-symbol call returns
AllExchangesReturn ==
    /\ callPc = "running"
    /\ entry = "all"
    /\ AllDone(1)
    /\ report' = AllExchangesResult(1)
    /\ callPc' = "returned"
    /\ UNCHANGED wrapperVars /\ UNCHANGED tokenVars /\ UNCHANGED <<exchanges, markets, entry, symbols, pc, calls, response,
                   taskResult, doneOrder, symResult, raised, target>>

\* fetch_symbol(symbol) returns the pair (symbol, data)
FetchSymbolReturn(i) ==
    /\ callPc = "running"
    /\ entry = "multi"
    /\ symResult[i].kind = "pending"
    /\ AllDone(i)
    /\ symResult' = [symResult EXCEPT
                        ![i] = Returned(<<symbols[i], AllExchangesResult(i)>>)]
    /\ UNCHANGED wrapperVars /\ UNCHANGED tokenVars /\ UNCHANGED <<exchanges, markets, entry, callPc, symbols, pc, calls,
                   response, taskResult, doneOrder, report, raised, target>>

\* The many-symbol call returns the dict it collected
MultipleSymbolsReturn ==
    /\ callPc = "running"
    /\ entry = "multi"
    /\ \A i \in 1..Len(symbols) : symResult[i].kind # "pending"
    /\ report' = CollectResults(symResult, << >>)
    /\ callPc' = "returned"
    /\ UNCHANGED wrapperVars /\ UNCHANGED tokenVars /\ UNCHANGED <<exchanges, markets, entry, symbols, pc, calls, response,
                   taskResult, doneOrder, symResult, raised, target>>

\* get_funding_rates_sync(symbol): a fresh collector, then _get_rates up to
\* its await of get_funding_rates_all_exchanges
GetFundingRatesSync ==
    /\ wrapperPc = "none"
    /\ \E symbol \in Symbols :
          /\ Len(exchanges) <= MaxTasks
          /\ Launch("all", <<symbol>>)
    /\ wrapperPc' = "try"
    /\ UNCHANGED <<closeCalls, closeIdx, closed>>

\* get_multiple_symbols_sync(symbols): a fresh collector, then
\* _get_multiple_rates up to its await of get_multiple_symbols_funding_rates
GetMultipleSymbolsSync ==
    /\ wrapperPc = "none"
    /\ \E syms \in SymbolLists : Launch("multi", syms)
    /\ wrapperPc' = "try"
    /\ UNCHANGED <<closeCalls, closeIdx, closed>>

\* The fetch returned its results inside the try block: the wrapper calls
\* close_connections, which awaits the close of the first client
WrapperFetchReturn ==
    /\ wrapperPc = "try"
    /\ callPc = "returned"
    /\ ~raised
    /\ wrapperPc' = "try_close"
    /\ closeCalls' = closeCalls + 1
    /\ closeIdx' = 1
    /\ UNCHANGED <<closed>>
    /\ UNCHANGED tokenVars /\ UNCHANGED <<exchanges, markets, entry, callPc, symbols, pc, calls,
                   response, taskResult, doneOrder, symResult, report, raised,
                   target>>

\* exchange.close() of the client close_connections is at returns: the loop
\* goes on to the next client; after the last one close_connections returns,
\* and the wrapper returns the results (try block) or re-raises (except block)
CloseReturn ==
    /\ wrapperPc \in {"try_close", "except_close"}
    /\ closed' = closed \cup {exchanges[closeIdx]}
    /\ IF closeIdx < Len(exchanges)
       THEN /\ closeIdx' = closeIdx + 1
            /\ UNCHANGED wrapperPc
       ELSE /\ wrapperPc' = IF wrapperPc = "try_close" THEN "returned" ELSE "raised"
            /\ UNCHANGED closeIdx
    /\ UNCHANGED <<closeCalls>>
    /\ UNCHANGED tokenVars /\ UNCHANGED <<exchanges, markets, entry, callPc, symbols, pc, calls,
                   response, taskResult, doneOrder, symResult, report, raised,
                   target>>

\* exchange.close() of the client close_connections is at raises: the loop is
\* left.  In the try block the except clause catches the exception and calls
\* close_connections again, from the first client; in the except block the
\* exception leaves the wrapper
CloseRaise ==
    /\ wrapperPc \in {"try_close", "except_close"}
    /\ IF wrapperPc = "try_close"
       THEN /\ wrapperPc' = "except_close"
            /\ closeCalls' = closeCalls + 1
            /\ closeIdx' = 1
       ELSE /\ wrapperPc' = "raised"
            /\ UNCHANGED <<closeCalls, closeIdx>>
    /\ UNCHANGED <<closed>>
    /\ UNCHANGED tokenVars /\ UNCHANGED <<exchanges, markets, entry, callPc, symbols, pc, calls,
                   response, taskResult, doneOrder, symResult, report, raised,
                   target>>

Next ==
    \/ CallAllExchanges
    \/ CallMultipleSymbols
    \/ CallSingleExchange
    \/ SingleExchangeReturn
    \/ \E t \in Tasks : StartTask(t)
    \/ \E t \in Tasks : LoadMarketsReturn(t)
    \/ \E t \in Tasks : FetchFundingRateReturn(t)
    \/ \E t \in Tasks : KucoinReturn(t)
    \/ AllExchangesReturn
    \/ \E i \in 1..Len(symbols) : FetchSymbolReturn(i)
    \/ MultipleSymbolsReturn

\* The steps of a running call: the event loop resumes a coroutine, a
\* network call answers, a gather is joined
Progress ==
    \/ SingleExchangeReturn
    \/ \E t \in Tasks : StartTask(t)
    \/ \E t \in Tasks : LoadMarketsReturn(t)
    \/ \E t \in Tasks : FetchFundingRateReturn(t)
    \/ \E t \in Tasks : KucoinReturn(t)
    \/ AllExchangesReturn
    \/ \E i \in 1..Len(symbols) : FetchSymbolReturn(i)
    \/ MultipleSymbolsReturn

\* The event loop runs every coroutine that can run and every network call
\* answers or times out within a bounded time
LiveSpec == Init /\ [][Next]_vars /\ WF_vars(Progress)

Spec == Init /\ [][Next]_vars

\* A TokenCollector holding the listings it collected; no
\* FundingRateCollector exists
MergeInit ==
    /\ exchange_tokens \in ExchangeTokens
    /\ merged_tokens = None
    /\ exchanges = << >>
    /\ markets = << >>
    /\ entry = "none"
    /\ callPc = "idle"
    /\ symbols = << >>
    /\ pc = << >>
    /\ calls = << >>
    /\ response = << >>
    /\ taskResult = << >>
    /\ doneOrder = << >>
    /\ symResult = << >>
    /\ report = << >>
    /\ raised = FALSE
    /\ target = ""
    /\ wrapperPc = "none"
    /\ closeCalls = 0
    /\ closeIdx = 0
    /\ closed = {}

\* collector.merge_tokens(exchange_tokens)
MergeTokens ==
    /\ merged_tokens = None
    /\ merged_tokens' = Some(merge_tokens(exchange_tokens))
    /\ UNCHANGED exchange_tokens
    /\ UNCHANGED wrapperVars
    /\ UNCHANGED <<exchanges, markets, entry, callPc, symbols, pc, calls,
                   response, taskResult, doneOrder, symResult, report, raised,
                   target>>

MergeNext == MergeTokens

MergeSpec == MergeInit /\ [][MergeNext]_vars

\* The collector used through its synchronous wrappers
SyncNext ==
    \/ GetFundingRatesSync
    \/ GetMultipleSymbolsSync
    \/ \E t \in Tasks : StartTask(t)
    \/ \E t \in Tasks : LoadMarketsReturn(t)
    \/ \E t \in Tasks : FetchFundingRateReturn(t)
    \/ \E t \in Tasks : KucoinReturn(t)
    \/ AllExchangesReturn
    \/ \E i \in 1..Len(symbols) : FetchSymbolReturn(i)
    \/ MultipleSymbolsReturn
    \/ WrapperFetchReturn
    \/ CloseReturn
    \/ CloseRaise

SyncSpec == Init /\ [][SyncNext]_vars

----------------------------------------------------------------------------
(* Properties *)

Returns == callPc = "returned"

\* The venue's answer to task t (once it is done)
Answer(t) == response[t][1]

\* The record task t returned (once it is done)
RecordOf(t) == taskResult[t].value

DoneTasks == { t \in Tasks : pc[t] = "done" }

\* The exchange report of symbol index i in the value the call returned
ReportOf(i) == IF entry = "all" THEN report ELSE report[symbols[i]]

\* fetch_funding_rate or the KuCoin HTTP client raised for task t
Threw(t) ==
    IF exchanges[t[2]] = "kucoin" THEN Answer(t).kind = "exception"
    ELSE ~Answer(t).ok

\* C1: the one-symbol call returns exactly one record for every configured
\* exchange: none is missing, none appears twice.
C1_OneRecordPerExchange ==
    (Returns /\ entry = "all") =>
        /\ Len(report) = Len(exchanges)
        /\ \A j \in 1..Len(exchanges) :
              Cardinality({ k \in 1..Len(report) :
                              report[k].exchange = exchanges[j] }) = 1

\* C1 witness: a returned report over two exchanges, one record a success,
\* one a failure that came from a raised fault
C1_Witness ==
    /\ Returns /\ entry = "all"
    /\ Len(exchanges) >= 2
    /\ \E a, b \in Tasks :
          /\ RecordOf(a).success
          /\ ~RecordOf(b).success /\ Threw(b)

\* C2: the i-th record of every returned exchange report carries the i-th
\* configured exchange's name, whatever the completion order was.
C2_ConfigurationOrder ==
    (Returns /\ entry # "single") =>
        \A i \in 1..Len(symbols) :
            /\ Len(ReportOf(i)) = Len(exchanges)
            /\ \A k \in 1..Len(exchanges) :
                  ReportOf(i)[k].exchange = exchanges[k]

\* C2 witness: the last configured exchange finished before the first
C2_Witness ==
    /\ Returns /\ entry = "all"
    /\ Len(exchanges) >= 2
    /\ doneOrder[1][1] = Len(exchanges)
    /\ doneOrder[1][Len(exchanges)] = 1

\* C3: an exchange whose adapter throws gets a failure record and leaves the
\* other exchanges' records as their venues answered; the call returns.
C3_FaultIsolated ==
    (Returns /\ entry = "all") =>
        \A j \in 1..Len(exchanges) :
            LET t == <<1, j>>
            IN  /\ Threw(t) =>
                      /\ report[j].exchange = exchanges[j]
                      /\ ~report[j].success
                      /\ report[j].funding_rate = None
                      /\ report[j].error = Some(Answer(t).exc)
                /\ (exchanges[j] # "kucoin" /\ Answer(t).ok) =>
                      /\ report[j].exchange = exchanges[j]
                      /\ report[j].success
                      /\ report[j].error = None
                      /\ report[j].funding_rate = Get(Answer(t).info, "fundingRate")

\* C3 witness: exchange A succeeded with a rate, exchange B threw
C3_Witness ==
    /\ Returns /\ entry = "all"
    /\ \E a, b \in 1..Len(exchanges) :
          /\ exchanges[a] # "kucoin" /\ Answer(<<1, a>>).ok
          /\ report[a].success /\ report[a].funding_rate = Some(1)
          /\ exchanges[b] # "kucoin" /\ Threw(<<1, b>>)
          /\ ~report[b].success

\* The venue's payload of task t carries a funding rate
PayloadHasRate(t) ==
    IF exchanges[t[2]] = "kucoin"
    THEN /\ Answer(t).kind = "http"
         /\ "data" \in DOMAIN Answer(t).json
         /\ "value" \in DOMAIN Answer(t).json.data
    ELSE Answer(t).ok /\ "fundingRate" \in DOMAIN Answer(t).info

\* C4 as stated: success=true implies funding_rate present and error
\* absent; success=false implies funding_rate absent.
C4_SuccessHasRate ==
    \A t \in DoneTasks :
        /\ RecordOf(t).success =>
              RecordOf(t).funding_rate # None /\ RecordOf(t).error = None
        /\ ~RecordOf(t).success => RecordOf(t).funding_rate = None

\* C4 amended: success=true implies error absent, and funding_rate present
\* whenever the venue's payload carries a funding rate; success=false
\* implies funding_rate absent.
C4_SuccessHasRateIfPayloadHas ==
    \A t \in DoneTasks :
        /\ RecordOf(t).success =>
              /\ RecordOf(t).error = None
              /\ PayloadHasRate(t) => RecordOf(t).funding_rate # None
        /\ ~RecordOf(t).success => RecordOf(t).funding_rate = None

\* C4 witness: a success record with a rate, a success record whose payload
\* had no rate, and a failure record
C4_Witness ==
    \E a, b, c \in DoneTasks :
        /\ RecordOf(a).success /\ PayloadHasRate(a)
        /\ RecordOf(a).funding_rate # None
        /\ RecordOf(b).success /\ ~PayloadHasRate(b)
        /\ ~RecordOf(c).success /\ RecordOf(c).funding_rate = None

\* The single request of task t failed: the client raised, the HTTP status
\* or the envelope's code was not a success, the data object was missing or
\* its value was no number
RequestFailed(t) ==
    LET r == Answer(t)
    IN  IF exchanges[t[2]] # "kucoin" THEN ~r.ok
        ELSE IF r.kind = "exception" THEN TRUE
        ELSE IF r.status # 200 THEN TRUE
        ELSE IF r.json.code # "200000" THEN TRUE
        ELSE IF "data" \notin DOMAIN r.json THEN TRUE
        ELSE /\ "value" \in DOMAIN r.json.data
             /\ r.json.data.value \notin {"0.0001", "0.0", "-0.0002"}

\* The failure message of the request of task t, for each answer of the
\* model's venues
FailureMessage(t) ==
    LET r == Answer(t)
    IN  IF exchanges[t[2]] # "kucoin" THEN r.exc
        ELSE IF r.kind = "exception" THEN r.exc
        ELSE IF r.status = 404 THEN "HTTP 404: Not Found"
        ELSE IF r.json.code = "400100" THEN "KuCoin API error: Symbol not exists"
        ELSE IF "data" \notin DOMAIN r.json THEN "KuCoin API error: Unknown error"
        ELSE "could not convert string to float: 'n/a'"

\* C5: when every candidate of a task failed (the code tries one), the
\* record has success=false, funding_rate=null and the error of the last
\* attempt.
C5_AllCandidatesFail ==
    \A t \in DoneTasks :
        RequestFailed(t) =>
            /\ ~RecordOf(t).success
            /\ RecordOf(t).funding_rate = None
            /\ RecordOf(t).error = Some(FailureMessage(t))

\* C5 witness: a generic task and a KuCoin task whose requests failed
C5_Witness ==
    \E a, b \in DoneTasks :
        /\ exchanges[a[2]] # "kucoin" /\ RequestFailed(a)
        /\ RecordOf(a).error = Some("request timed out")
        /\ exchanges[b[2]] = "kucoin" /\ RequestFailed(b)
        /\ RecordOf(b).error = Some("HTTP 404: Not Found")

\* C6: a task whose first candidate succeeded issued exactly one
\* funding-rate request to its adapter.
C6_OneRequestOnSuccess ==
    \A t \in DoneTasks : RecordOf(t).success => calls[t] = 1

\* C6 witness: the call returned with a success record after one request
C6_Witness ==
    /\ Returns
    /\ \E t \in DoneTasks : RecordOf(t).success /\ calls[t] = 1

\* C7: each of funding_rate, funding_time, next_funding_time and timestamp
\* of a success record equals the payload's value when the payload has the
\* field and is null when it lacks it (KuCoin: value parsed, timePoint).
C7_NormalizerRoundTrip ==
    \A t \in DoneTasks :
        RecordOf(t).success =>
            IF exchanges[t[2]] = "kucoin"
            THEN LET data == Answer(t).json.data
                 IN  /\ RecordOf(t).funding_rate =
                            (IF "value" \in DOMAIN data
                             THEN Some(FloatTable[data.value]) ELSE None)
                     /\ RecordOf(t).funding_time = None
                     /\ RecordOf(t).next_funding_time = None
                     /\ RecordOf(t).timestamp = Get(data, "timePoint")
            ELSE LET info == Answer(t).info
                 IN  /\ RecordOf(t).funding_rate = Get(info, "fundingRate")
                     /\ RecordOf(t).funding_time = Get(info, "fundingDatetime")
                     /\ RecordOf(t).next_funding_time =
                            Get(info, "nextFundingDatetime")
                     /\ RecordOf(t).timestamp = Get(info, "timestamp")

\* C8: the dict of the many-symbol call has an entry for every requested
\* symbol (once, being a dict) and the entry holds one record per configured
\* exchange, for that symbol.
C8_EverySymbolReported ==
    (Returns /\ entry = "multi") =>
        /\ DOMAIN report = Range(symbols)
        /\ \A s \in Range(symbols) :
              /\ Len(report[s]) = Len(exchanges)
              /\ \A k \in 1..Len(exchanges) :
                    /\ report[s][k].exchange = exchanges[k]
                    /\ report[s][k].symbol = s

\* C8 witness: two different symbols were requested and a task threw
C8_Witness ==
    /\ Returns /\ entry = "multi"
    /\ Len(symbols) = 2 /\ symbols[1] # symbols[2]
    /\ \E t \in Tasks : Threw(t) /\ ~RecordOf(t).success

\* C9: no fault of an exchange's fetch leaves its coroutine or the call:
\* every task that threw returned a failure record with an error string,
\* no fetch_symbol raised and the call did not raise.
C9_NoFaultPropagates ==
    /\ ~raised
    /\ \A i \in 1..Len(symbols) : symResult[i].kind # "exception"
    /\ \A t \in DoneTasks :
          /\ taskResult[t].kind = "value"
          /\ Threw(t) =>
                /\ ~RecordOf(t).success
                /\ RecordOf(t).error = Some(Answer(t).exc)

\* C9 witness: a many-symbol call returned although a task threw
C9_Witness ==
    /\ Returns /\ entry = "multi" /\ ~raised
    /\ \E t \in Tasks : Threw(t) /\ ~ReportOf(t[1])[t[2]].success

\* The scenario of C10: exchanges [bitget, okx], symbol BTC/USDT, bitget
\* answers rate 0.0001, okx raises a 404
C10_Scenario ==
    /\ Returns /\ entry # "single"
    /\ exchanges = <<"bitget", "okx">>
    /\ symbols = <<"BTC/USDT">>
    /\ Answer(<<1, 1>>).ok
    /\ Get(Answer(<<1, 1>>).info, "fundingRate") = Some(1)
    /\ ~Answer(<<1, 2>>).ok
    /\ Answer(<<1, 2>>).exc = "404 Not Found"

\* C10: in the scenario the report is the bitget success record followed by
\* the okx failure record, with the fields the claim lists.
C10_ConcreteScenario ==
    C10_Scenario =>
        LET r == ReportOf(1)
        IN  /\ Len(r) = 2
            /\ r[1].exchange = "bitget"
            /\ r[1].symbol = "BTC/USDT"
            /\ r[1].perpetual_symbol = "BTC/USDT:USDT"
            /\ r[1].funding_rate = Some(1)
            /\ r[1].success
            /\ r[1].error = None
            /\ r[2].exchange = "okx"
            /\ r[2].symbol = "BTC/USDT"
            /\ r[2].perpetual_symbol = "BTC-USDT-SWAP"
            /\ r[2].funding_rate = None
            /\ ~r[2].success
            /\ r[2].error = Some("404 Not Found")

\* C10 witness: the scenario happened, okx having answered first
C10_Witness ==
    /\ C10_Scenario
    /\ doneOrder[1] = <<2, 1>>

\* The base asset of each symbol of the model
ExpectedBase(symbol) == IF symbol = "BTC/USDT" THEN "BTC" ELSE "ETH"

\* The venue-specific symbol format of each configured exchange
VenueFormat(exchange_name, base) ==
    CASE exchange_name = "bitget" -> base \o "/USDT:USDT"
      [] exchange_name = "huobi"  -> base \o "-USDT"
      [] exchange_name = "kucoin" -> base \o "USDTM"
      [] exchange_name = "bybit"  -> base \o "USDT"
      [] exchange_name = "bingx"  -> base \o "-USDT"
      [] exchange_name = "gateio" -> base \o "/USDT:USDT"
      [] exchange_name = "okx"    -> base \o "-USDT-SWAP"
      [] exchange_name = "mexc"   -> base \o "_USDT"

\* C11 as stated: for every configured exchange and symbol the candidate
\* list is non-empty, starts with the venue-specific format and has a
\* generic BASE/USDT fallback after it.
C11_VenueThenFallback ==
    \A j \in 1..Len(exchanges), s \in Range(symbols) :
        LET c == Candidates(exchanges[j], s)
        IN  /\ Len(c) >= 2
            /\ c[1] = VenueFormat(exchanges[j], ExpectedBase(s))
            /\ \E k \in 2..Len(c) : c[k] = ExpectedBase(s) \o "/USDT"

\* C11 amended: for every configured exchange and symbol the resolver gives
\* exactly one candidate, the venue-specific format, which is not empty and
\* is what the record of every finished task reports; no fallback follows.
C11_OneVenueCandidate ==
    /\ \A e \in Range(ConfiguredExchanges), s \in Symbols :
          LET c == Candidates(e, s)
          IN  /\ Len(c) = 1
              /\ c[1] = VenueFormat(e, ExpectedBase(s))
              /\ c[1] # ""
    /\ \A t \in DoneTasks :
          RecordOf(t).perpetual_symbol =
              VenueFormat(exchanges[t[2]], ExpectedBase(symbols[t[1]]))

\* C11 witness: a finished OKX task of ETH/USD reports the one candidate
C11_Witness ==
    \E t \in DoneTasks :
        /\ exchanges[t[2]] = "okx" /\ symbols[t[1]] = "ETH/USD"
        /\ Candidates("okx", "ETH/USD") = <<"ETH-USDT-SWAP">>
        /\ RecordOf(t).perpetual_symbol = "ETH-USDT-SWAP"

\* C12 as stated: a call for an exchange name outside the configured set
\* fails as a programmer error and gives no record.
C12_UnknownExchangeFatal ==
    (Returns /\ entry = "single" /\ target \notin Range(ConfiguredExchanges)) =>
        raised /\ report = << >>

\* C12 amended: a call for an exchange name that is no key of
\* self.exchanges does not raise; it issues no request and returns a failure
\* record whose error is the KeyError text and whose perpetual_symbol is the
\* name's line of the mapping, or BASE/USDT when it has none.
C12_UnknownExchangeRecord ==
    (Returns /\ entry = "single" /\ target \notin Range(ConfiguredExchanges)) =>
        /\ ~raised
        /\ \A t \in Tasks : calls[t] = 0
        /\ report.exchange = target
        /\ report.symbol = symbols[1]
        /\ ~report.success
        /\ report.funding_rate = None
        /\ report.error = Some(IF target = "binance" THEN "'binance'" ELSE "'ftx'")
        /\ report.perpetual_symbol =
              (IF target = "binance" THEN ExpectedBase(symbols[1]) \o "USDT"
               ELSE ExpectedBase(symbols[1]) \o "/USDT")

\* C12 witness: the call for the unmapped name ftx returned the fallback
C12_Witness ==
    /\ Returns /\ entry = "single" /\ target = "ftx"
    /\ ~report.success
    /\ report.perpetual_symbol = "BTC/USDT"

\* C13 as stated: when the first candidate of a task fails, the next
\* candidate is tried (a further request is issued) before the task ends.
C13_NextCandidateTried ==
    \A t \in DoneTasks : RequestFailed(t) => calls[t] >= 2

\* C13 amended: a task tries one candidate; when it fails the task ends
\* with a failure record carrying that candidate and its error, and no
\* further candidate is requested.
C13_OneCandidateTried ==
    /\ \A t \in Tasks : calls[t] <= Len(Candidates(exchanges[t[2]], symbols[t[1]]))
    /\ \A t \in DoneTasks :
          RequestFailed(t) =>
              /\ calls[t] = 1
              /\ ~RecordOf(t).success
              /\ RecordOf(t).perpetual_symbol =
                     VenueFormat(exchanges[t[2]], ExpectedBase(symbols[t[1]]))
              /\ RecordOf(t).error = Some(FailureMessage(t))

\* C13 witness: a generic task ended in failure after its one request
C13_Witness ==
    \E t \in DoneTasks :
        /\ exchanges[t[2]] # "kucoin" /\ RequestFailed(t)
        /\ calls[t] = 1 /\ ~RecordOf(t).success

\* The outcomes of a gather in which every exchange task of symbol i raised
AllRaised(msg) == [k \in 1..Len(exchanges) |-> Raised(msg)]

\* C14: every failure record reports the first (only) resolver candidate of
\* its exchange and base asset as perpetual_symbol and the message of its
\* fault as error: the records the tasks return, and the records the
\* controller's loop builds from outcomes that are exceptions.
C14_FailureDiagnostics ==
    /\ \A t \in DoneTasks :
          ~RecordOf(t).success =>
              /\ RecordOf(t).perpetual_symbol =
                     Candidates(exchanges[t[2]], symbols[t[1]])[1]
              /\ RecordOf(t).perpetual_symbol =
                     VenueFormat(exchanges[t[2]], ExpectedBase(symbols[t[1]]))
              /\ RecordOf(t).error = Some(FailureMessage(t))
    /\ \A i \in 1..Len(symbols), k \in 1..Len(exchanges) :
          LET r == ProcessedResults(AllRaised("task fault"), symbols[i])[k]
          IN  /\ ~r.success
              /\ r.perpetual_symbol =
                     VenueFormat(exchanges[k], ExpectedBase(symbols[i]))
              /\ r.error = Some("task fault")

\* C14 witness: the returned report holds the failure record of an OKX
\* task that timed out
C14_Witness ==
    /\ Returns /\ entry = "all"
    /\ \E k \in 1..Len(exchanges) :
          /\ exchanges[k] = "okx" /\ symbols[1] = "BTC/USDT"
          /\ ~report[k].success
          /\ report[k].perpetual_symbol = "BTC-USDT-SWAP"
          /\ report[k].error = Some("request timed out")

\* The tasks of the generic-client path that the call created
GenericTasks == { t \in Tasks : exchanges[t[2]] # "kucoin" /\ pc[t] # "absent" }

\* C15: the markets cache is advisory.  Whether a task found the markets
\* loaded, loaded them itself, loaded them again beside another task or saw
\* load_markets fail, it goes on to issue its one funding-rate request, and
\* its record is decided by the answer to that request alone.
C15_MarketsCacheAdvisory ==
    \A t \in GenericTasks :
        /\ pc[t] \in {"ready", "loading", "fetching", "done"}
        /\ pc[t] \in {"ready", "loading"} => calls[t] = 0
        /\ pc[t] \in {"fetching", "done"} => calls[t] = 1
        /\ pc[t] = "done" =>
              /\ taskResult[t].kind = "value"
              /\ RecordOf(t).success = Answer(t).ok
              /\ ~Answer(t).ok => RecordOf(t).error = Some(Answer(t).exc)

\* C15 witness: two tasks share one client whose markets are still not
\* loaded (each called load_markets and each load failed); one has its
\* request in flight, the other ended with a success record
C15_Witness ==
    \E a, b \in GenericTasks :
        /\ a # b /\ a[2] = b[2]
        /\ ~markets[exchanges[a[2]]]
        /\ pc[a] = "done" /\ RecordOf(a).success
        /\ pc[b] = "fetching" /\ calls[b] = 1

\* C16: the KuCoin adapter returns a success record only for HTTP 200 with
\* code "200000"; a non-2xx status or another code gives a failure record
\* (success=false, funding_rate=null, error set), returned, not raised.
C16_KucoinEnvelope ==
    \A t \in DoneTasks :
        exchanges[t[2]] = "kucoin" =>
            /\ taskResult[t].kind = "value"
            /\ RecordOf(t).success =>
                  /\ Answer(t).kind = "http"
                  /\ Answer(t).status = 200
                  /\ Answer(t).json.code = "200000"
            /\ ( /\ Answer(t).kind = "http"
                 /\ \/ Answer(t).status \notin 200..299
                    \/ Answer(t).json.code # "200000" ) =>
                  /\ ~RecordOf(t).success
                  /\ RecordOf(t).funding_rate = None
                  /\ RecordOf(t).error # None

\* C16 witness: HTTP 200 with code 400100 ended as a returned failure record
C16_Witness ==
    \E t \in DoneTasks :
        /\ exchanges[t[2]] = "kucoin"
        /\ Answer(t).kind = "http" /\ Answer(t).status = 200
        /\ Answer(t).json.code = "400100"
        /\ taskResult[t].kind = "value"
        /\ ~RecordOf(t).success
        /\ RecordOf(t).error = Some("KuCoin API error: Symbol not exists")

\* C17: a call joins all of its tasks: the report of a symbol exists only
\* once every exchange task of that symbol has ended, the call returns only
\* once every task has ended, and the report holds the record of each.
C17_JoinsAllTasks ==
    /\ entry = "multi" =>
          \A i \in 1..Len(symbols) :
              symResult[i].kind # "pending" =>
                  \A j \in 1..Len(exchanges) : pc[<<i, j>>] = "done"
    /\ (Returns /\ entry \in {"all", "multi"}) =>
          \A t \in Tasks :
              /\ pc[t] = "done"
              /\ Len(ReportOf(t[1])) = Len(exchanges)
    /\ (Returns /\ entry = "all") =>
          \A j \in 1..Len(exchanges) : report[j] = RecordOf(<<1, j>>)

\* C17 witness: a call over three exchanges returned, its three tasks ended
C17_Witness ==
    /\ Returns /\ entry = "all"
    /\ Len(exchanges) = 3 /\ Len(report) = 3
    /\ \A t \in Tasks : pc[t] = "done"

\* C18: no task waits for another: whatever the other tasks are doing, a
\* created task can start, and a task whose network call is in flight can
\* receive its answer.
C18_TasksRunConcurrently ==
    callPc = "running" =>
        \A t \in Tasks :
            /\ pc[t] = "ready" => ENABLED StartTask(t)
            /\ pc[t] = "loading" => ENABLED LoadMarketsReturn(t)
            /\ pc[t] = "fetching" => ENABLED FetchFundingRateReturn(t)
            /\ pc[t] = "http" => ENABLED KucoinReturn(t)

\* C18 witness: three launched tasks, each with its funding-rate request in
\* flight and none answered
C18_Witness ==
    /\ callPc = "running" /\ entry \in {"all", "multi"}
    /\ Cardinality(Tasks) = 3
    /\ \A t \in Tasks :
          /\ pc[t] \in {"fetching", "http"}
          /\ calls[t] = 1
          /\ response[t] = None

\* The call returned a complete report
CompleteReport ==
    /\ Returns /\ ~raised
    /\ entry = "all" => Len(report) = Len(exchanges)
    /\ entry = "multi" =>
          /\ DOMAIN report = Range(symbols)
          /\ \A s \in Range(symbols) : Len(report[s]) = Len(exchanges)
    /\ entry = "single" => report.exchange = target

\* C19: every task issues at most as many requests as it has candidates,
\* and a running call eventually returns a complete report.
C19_Terminates ==
    /\ [](\A t \in Tasks :
              calls[t] <= Len(Candidates(exchanges[t[2]], symbols[t[1]])))
    /\ (callPc = "running") ~> CompleteReport

\* C19 witness: a call over two symbols returned a complete report that
\* holds a failure record; every task issued one request
C19_Witness ==
    /\ CompleteReport /\ entry = "multi" /\ Len(symbols) = 2
    /\ \A t \in Tasks : calls[t] = 1
    /\ \E t \in Tasks : ~RecordOf(t).success

\* The shape of a failure record of exchange e for symbol s
IsFailureRecord(r, e, s) ==
    /\ ~r.success
    /\ r.funding_rate = None /\ r.funding_time = None
    /\ r.next_funding_time = None /\ r.timestamp = None
    /\ r.error # None
    /\ r.exchange = e
    /\ r.symbol = s

\* C20: every failure record, on every path, has funding_rate,
\* funding_time, next_funding_time and timestamp null, an error string, the
\* exchange name of its task and the symbol as the caller passed it: the
\* records the tasks return, the record of a direct call for an unknown
\* exchange, and the records the controller's loop builds from exceptions.
C20_FailureRecordShape ==
    /\ \A t \in DoneTasks :
          ~RecordOf(t).success =>
              IsFailureRecord(RecordOf(t), exchanges[t[2]], symbols[t[1]])
    /\ (Returns /\ entry = "single" /\ ~raised) =>
          (~report.success => IsFailureRecord(report, target, symbols[1]))
    /\ \A i \in 1..Len(symbols), k \in 1..Len(exchanges) :
          IsFailureRecord(ProcessedResults(AllRaised("task fault"), symbols[i])[k],
                          exchanges[k], symbols[i])

\* C20 witness: failure records of a KuCoin HTTP error and of a generic
\* client exception, for the symbol ETH/USD as passed
C20_Witness ==
    \E a, b \in DoneTasks :
        /\ exchanges[a[2]] = "kucoin" /\ symbols[a[1]] = "ETH/USD"
        /\ RecordOf(a).error = Some("HTTP 404: Not Found")
        /\ IsFailureRecord(RecordOf(a), "kucoin", "ETH/USD")
        /\ exchanges[b[2]] # "kucoin" /\ Threw(b)
        /\ IsFailureRecord(RecordOf(b), exchanges[b[2]], symbols[b[1]])

\* C21: when a synchronous wrapper has returned or raised,
\* close_connections was called exactly once and every configured exchange
\* client is closed.
C21_ClosedExactlyOnce ==
    wrapperPc \in {"returned", "raised"} =>
        /\ closeCalls = 1
        /\ closed = Range(exchanges)

\* The ExchangeReports the returned call handed to its caller
Reports ==
    IF ~Returns \/ raised THEN {}
    ELSE IF entry = "all" THEN {report}
    ELSE IF entry = "multi" THEN Range(report)
    ELSE {}

\* The number of records among the first k of results whose success flag is b
RankAmong(results, k, b) ==
    Cardinality({m \in 1..k : results[m].success = b})

\* C22: get_successful_rates and get_failed_exchanges partition every
\* ExchangeReport: a record with success set is in the first output and a
\* record without is in the second (by its exchange name), each at the
\* position its rank among the records with the same flag gives it, so input
\* order is kept, and the two lengths sum to the length of the report.
C22_Partition ==
    \A results \in Reports :
        LET successful == get_successful_rates(results)
            failed == get_failed_exchanges(results)
        IN  /\ Len(successful) + Len(failed) = Len(results)
            /\ Len(successful) = RankAmong(results, Len(results), TRUE)
            /\ Len(failed) = RankAmong(results, Len(results), FALSE)
            /\ \A k \in 1..Len(results) :
                  IF results[k].success
                  THEN successful[RankAmong(results, k, TRUE)] = results[k]
                  ELSE failed[RankAmong(results, k, FALSE)] = results[k].exchange

\* C22 witness: a report of three records, the second a failure between two
\* successes, split into the two successes in order and the one failed name
C22_Witness ==
    \E results \in Reports :
        /\ Len(results) = 3
        /\ results[1].success /\ ~results[2].success /\ results[3].success
        /\ get_successful_rates(results) = <<results[1], results[3]>>
        /\ get_failed_exchanges(results) = <<results[2].exchange>>

\* The (exchange, token) listings of a base in the argument of merge_tokens
ListingsOf(base) ==
    { ij \in (1..Len(exchange_tokens)) \X (1..MaxTokens + 1) :
        /\ ij[2] <= Len(exchange_tokens[ij[1]][2])
        /\ exchange_tokens[ij[1]][2][ij[2]].base = base }

\* The bases of the argument, each listing's own
BasesFound ==
    { exchange_tokens[ij[1]][2][ij[2]].base :
        ij \in { p \in (1..Len(exchange_tokens)) \X (1..MaxTokens + 1) :
                   p[2] <= Len(exchange_tokens[p[1]][2]) } }

====
